---- MODULE Spec2Model ----
(***************************************************************************)
(* State-machine model of the single-page Sangh site                       *)
(* (src/hindi_ekta_shangh_website.jsx): the persisted Document             *)
(* (useLocalStorageState), the member and idea forms, the event handlers   *)
(* addMember / removeMember / submitIdea / takeActionOnIdea, the file      *)
(* reads that fill the photo fields, and the page's start-up and reload.   *)
(*                                                                         *)
(* A JavaScript string is a sequence of chunks (TLA+ strings); the chunk   *)
(* " " is white space.  A value that is a string or null is a record       *)
(* [isNull, s].  The text kept in localStorage is a sequence of JSON       *)
(* tokens, written by JSONstringify and read back by JSONparse.            *)
(***************************************************************************)
EXTENDS Integers, Sequences, FiniteSets, TLC

VARIABLES
    phase,       \* "closed" (no page), "running" (App mounted), "crashed" (render threw)
    slot,        \* localStorage[LS_KEY]: [present, text]
    data,        \* the Document held by useLocalStorageState
    memberForm,  \* useState: name, position, work, photoDataUrl
    ideaForm,    \* useState: title, description, imageDataUrl
    reads,       \* FileReader reads in flight: set of [input, file]
    now,         \* the wall clock read by Date.now(), in ms
    last         \* the last step taken (observation only, read by no action)

vars == <<phase, slot, data, memberForm, ideaForm, reads, now, last>>

-----------------------------------------------------------------------------
(* Bounds *)

MaxMembers == 3
MaxIdeas == 3
MaxClock == 3
MaxReads == 2
\* the lists' lengths in the scenarios that vary every form field or the storage
FormCap == 2
StoreCap == 2

-----------------------------------------------------------------------------
(* Strings *)

EmptyStr == <<>>

IsSpace(c) == c = " "

RECURSIVE TrimStart(_)
TrimStart(s) ==
    IF s # <<>> /\ IsSpace(Head(s)) THEN TrimStart(Tail(s)) ELSE s

RECURSIVE TrimEnd(_)
TrimEnd(s) ==
    IF s # <<>> /\ IsSpace(s[Len(s)]) THEN TrimEnd(SubSeq(s, 1, Len(s) - 1)) ELSE s

\* String.prototype.trim
Trim(s) == TrimEnd(TrimStart(s))

\* IsBlank without the trim
IsEmptyString(s) == s = EmptyStr

\* !s.trim(): the empty string is the only falsy string
IsBlank(s) == Trim(s) = EmptyStr

Null == [isNull |-> TRUE, s |-> EmptyStr]
Str(s) == [isNull |-> FALSE, s |-> s]

\* s || null
OrNull(s) == IF s = EmptyStr THEN Null ELSE Str(s)

\* FileReader.readAsDataURL: the data URL of a file's bytes, never empty
DataURL(file) == <<"data:", file>>

\* Date.prototype.toISOString of the instant t
ISOString(t) == <<"T", ToString(t)>>

StatusOpen == <<"Open">>
StatusActionTaken == <<"Action Taken">>

-----------------------------------------------------------------------------
(* The Document *)

\* the `initial` argument of useLocalStorageState
Seed ==
    [sanghName |-> <<"Sangh">>,
     description |-> <<"Local", " ", "safety">>,
     members |-> <<>>,
     ideas |-> <<>>]

EmptyMemberForm ==
    [name |-> EmptyStr, position |-> EmptyStr, work |-> EmptyStr, photoDataUrl |-> EmptyStr]

EmptyIdeaForm ==
    [title |-> EmptyStr, description |-> EmptyStr, imageDataUrl |-> EmptyStr]

-----------------------------------------------------------------------------
(* JSON text: a sequence of tokens *)

Punct(k) == [k |-> k, s |-> EmptyStr, n |-> 0]
TStr(s) == [k |-> "str", s |-> s, n |-> 0]
TNum(n) == [k |-> "num", s |-> EmptyStr, n |-> n]
TNull == Punct("null")
\* TOpt with null written as the empty string
TOptEmpty(v) == TStr(v.s)

\* a string or null
TOpt(v) == IF v.isNull THEN TNull ELSE TStr(v.s)

Key(name) == <<TStr(<<name>>), Punct(":")>>

RECURSIVE JoinTexts(_)
JoinTexts(texts) ==
    IF texts = <<>> THEN <<>>
    ELSE IF Len(texts) = 1 THEN texts[1]
    ELSE texts[1] \o <<Punct(",")>> \o JoinTexts(Tail(texts))

ObjectText(pairs) == <<Punct("{")>> \o JoinTexts(pairs) \o <<Punct("}")>>
ArrayText(items) == <<Punct("[")>> \o JoinTexts(items) \o <<Punct("]")>>

MemberText(m) ==
    ObjectText(<<Key("id") \o <<TNum(m.id)>>,
                 Key("name") \o <<TStr(m.name)>>,
                 Key("position") \o <<TStr(m.position)>>,
                 Key("work") \o <<TStr(m.work)>>,
                 Key("photo") \o <<TOpt(m.photo)>> >>)

IdeaText(i) ==
    ObjectText(<<Key("id") \o <<TNum(i.id)>>,
                 Key("title") \o <<TStr(i.title)>>,
                 Key("description") \o <<TStr(i.description)>>,
                 Key("image") \o <<TOpt(i.image)>>,
                 Key("status") \o <<TStr(i.status)>>,
                 Key("submittedAt") \o <<TStr(i.submittedAt)>> >>)

\* JSON.stringify(state), for a Document
JSONstringify(d) ==
    ObjectText(<<Key("sanghName") \o <<TStr(d.sanghName)>>,
                 Key("description") \o <<TStr(d.description)>>,
                 Key("members") \o ArrayText([j \in 1..Len(d.members) |-> MemberText(d.members[j])]),
                 Key("ideas") \o ArrayText([j \in 1..Len(d.ideas) |-> IdeaText(d.ideas[j])]) >>)

(* Parsed JSON values: [t, s, n, a, k]; an array keeps its elements in a, an
   object its keys in k and their values in a. *)
JNull == [t |-> "null", s |-> EmptyStr, n |-> 0, a |-> <<>>, k |-> <<>>]
JStr(s) == [t |-> "str", s |-> s, n |-> 0, a |-> <<>>, k |-> <<>>]
JNum(n) == [t |-> "num", s |-> EmptyStr, n |-> n, a |-> <<>>, k |-> <<>>]
JArr(a) == [t |-> "arr", s |-> EmptyStr, n |-> 0, a |-> a, k |-> <<>>]
JObj(k, a) == [t |-> "obj", s |-> EmptyStr, n |-> 0, a |-> a, k |-> k]

ParseFail == [ok |-> FALSE, val |-> JNull, next |-> 0]
Parsed(v, next) == [ok |-> TRUE, val |-> v, next |-> next]
Kind(text, j) == IF j \in 1..Len(text) THEN text[j].k ELSE "eof"

RECURSIVE ParseValue(_, _)
RECURSIVE ParseElements(_, _, _)
RECURSIVE ParsePairs(_, _, _, _)

ParseValue(text, j) ==
    CASE Kind(text, j) = "null" -> Parsed(JNull, j + 1)
      [] Kind(text, j) = "str" -> Parsed(JStr(text[j].s), j + 1)
      [] Kind(text, j) = "num" -> Parsed(JNum(text[j].n), j + 1)
      [] Kind(text, j) = "[" ->
            IF Kind(text, j + 1) = "]" THEN Parsed(JArr(<<>>), j + 2)
            ELSE ParseElements(text, j + 1, <<>>)
      [] Kind(text, j) = "{" ->
            IF Kind(text, j + 1) = "}" THEN Parsed(JObj(<<>>, <<>>), j + 2)
            ELSE ParsePairs(text, j + 1, <<>>, <<>>)
      [] OTHER -> ParseFail

ParseElements(text, j, acc) ==
    LET r == ParseValue(text, j) IN
    IF ~r.ok THEN ParseFail
    ELSE IF Kind(text, r.next) = "," THEN ParseElements(text, r.next + 1, Append(acc, r.val))
    ELSE IF Kind(text, r.next) = "]" THEN Parsed(JArr(Append(acc, r.val)), r.next + 1)
    ELSE ParseFail

ParsePairs(text, j, keys, vals) ==
    IF Kind(text, j) # "str" \/ Kind(text, j + 1) # ":" THEN ParseFail
    ELSE LET r == ParseValue(text, j + 2) IN
         IF ~r.ok THEN ParseFail
         ELSE IF Kind(text, r.next) = ","
              THEN ParsePairs(text, r.next + 1, Append(keys, text[j].s), Append(vals, r.val))
         ELSE IF Kind(text, r.next) = "}"
              THEN Parsed(JObj(Append(keys, text[j].s), Append(vals, r.val)), r.next + 1)
         ELSE ParseFail

\* JSON.parse(raw): ok = FALSE models the SyntaxError it throws
JSONparse(text) ==
    LET r == ParseValue(text, 1) IN
    IF r.ok /\ r.next = Len(text) + 1 THEN r ELSE ParseFail

Has(v, name) == v.t = "obj" /\ \E j \in 1..Len(v.k) : v.k[j] = <<name>>
\* the value of a property: the last pair with that key
Get(v, name) ==
    LET js == {j \in 1..Len(v.k) : v.k[j] = <<name>>} IN
    v.a[CHOOSE j \in js : \A h \in js : h <= j]
HasOf(v, name, t) == Has(v, name) /\ Get(v, name).t = t
HasOpt(v, name) == HasOf(v, name, "str") \/ HasOf(v, name, "null")
GetOpt(v, name) == IF Get(v, name).t = "null" THEN Null ELSE Str(Get(v, name).s)

IsMemberValue(v) ==
    /\ HasOf(v, "id", "num") /\ HasOf(v, "name", "str") /\ HasOf(v, "position", "str")
    /\ HasOf(v, "work", "str") /\ HasOpt(v, "photo")

IsIdeaValue(v) ==
    /\ HasOf(v, "id", "num") /\ HasOf(v, "title", "str") /\ HasOf(v, "description", "str")
    /\ HasOpt(v, "image") /\ HasOf(v, "status", "str") /\ HasOf(v, "submittedAt", "str")

\* a parsed value that App can render: data.members and data.ideas are read
\* with .length and .map, and each element's fields are read
IsDocumentValue(v) ==
    /\ HasOf(v, "sanghName", "str") /\ HasOf(v, "description", "str")
    /\ HasOf(v, "members", "arr") /\ HasOf(v, "ideas", "arr")
    /\ \A j \in 1..Len(Get(v, "members").a) : IsMemberValue(Get(v, "members").a[j])
    /\ \A j \in 1..Len(Get(v, "ideas").a) : IsIdeaValue(Get(v, "ideas").a[j])

AsMember(v) ==
    [id |-> Get(v, "id").n, name |-> Get(v, "name").s, position |-> Get(v, "position").s,
     work |-> Get(v, "work").s, photo |-> GetOpt(v, "photo")]

AsIdea(v) ==
    [id |-> Get(v, "id").n, title |-> Get(v, "title").s,
     description |-> Get(v, "description").s, image |-> GetOpt(v, "image"),
     status |-> Get(v, "status").s, submittedAt |-> Get(v, "submittedAt").s]

AsDocument(v) ==
    [sanghName |-> Get(v, "sanghName").s,
     description |-> Get(v, "description").s,
     members |-> [j \in 1..Len(Get(v, "members").a) |-> AsMember(Get(v, "members").a[j])],
     ideas |-> [j \in 1..Len(Get(v, "ideas").a) |-> AsIdea(Get(v, "ideas").a[j])]]

Absent == [present |-> FALSE, text |-> <<>>]
Stored(text) == [present |-> TRUE, text |-> text]

\* the lazy initializer of useState in useLocalStorageState: the value the
\* state starts with, for the slot content raw
LoadState(raw) ==
    IF ~raw.present \/ raw.text = <<>> THEN Seed
    ELSE LET r == JSONparse(raw.text) IN
         IF ~r.ok THEN Seed
         ELSE IF IsDocumentValue(r.val) THEN AsDocument(r.val)
         ELSE [nondoc |-> r.val]

\* the first render of App throws a TypeError on a state that has no members
\* or ideas array
RenderThrows(d) == "nondoc" \in DOMAIN d

-----------------------------------------------------------------------------
(* Inputs *)

Files == {"f1", "f2"}
NoFile == "none"

\* what the user can type into the name and title fields: nothing, white
\* space only, a name with a leading blank
NameInputs == {EmptyStr, <<" ">>, <<" ", "Asha">>}
PositionInputs == {EmptyStr, <<"Guard">>}
WorkInputs == {EmptyStr, <<"Patrol">>}
TitleInputs == {EmptyStr, <<" ">>, <<"Fix", " ", "gate">>}
DescriptionInputs == {EmptyStr, <<"Soon">>}
SanghInputs == {<<"Sangh">>, <<"Ekta">>}

\* contents the slot can hold when the page is first opened
InitialSlots ==
    {Absent,
     Stored(<<>>),
     Stored(<<Punct("{")>>),
     Stored(<<TNull>>),
     Stored(<<TNum(7)>>),
     Stored(<<Punct("{"), Punct("}")>>),
     Stored(<<Punct("["), Punct("]")>>),
     Stored(ObjectText(<<Key("members") \o <<TStr(<<"x">>)>>, Key("ideas") \o <<TNull>> >>)),
     Stored(JSONstringify(Seed)),
     Stored(JSONstringify([Seed EXCEPT !.sanghName = <<"Ekta">>]))}

-----------------------------------------------------------------------------
(* The state updates of the handlers *)

\* NewMember with the name stored trimmed
NewMemberTrimmed(form, t) ==
    [id |-> t, name |-> Trim(form.name), position |-> form.position, work |-> form.work,
     photo |-> OrNull(form.photoDataUrl)]

\* lines 78-84
NewMember(form, t) ==
    [id |-> t, name |-> form.name, position |-> form.position, work |-> form.work,
     photo |-> OrNull(form.photoDataUrl)]

\* AppendMember without the spread of the other fields
AppendMemberOnly(d, m) == [Seed EXCEPT !.members = Append(d.members, m)]

\* line 85: (d) => ({ ...d, members: [...d.members, newMember] })
AppendMember(d, m) == [d EXCEPT !.members = Append(@, m)]

\* lines 92-99
NewIdea(form, t, at) ==
    [id |-> t, title |-> form.title, description |-> form.description,
     image |-> OrNull(form.imageDataUrl), status |-> StatusOpen, submittedAt |-> ISOString(at)]

\* PrependIdea with the new idea put last
AppendIdea(d, i) == [d EXCEPT !.ideas = Append(@, i)]

\* line 100: (d) => ({ ...d, ideas: [newIdea, ...d.ideas] })
PrependIdea(d, i) == [d EXCEPT !.ideas = <<i>> \o @]

\* MarkActionTaken that takes the idea off the list
DropIdea(d, id) == [d EXCEPT !.ideas = SelectSeq(@, LAMBDA i : i.id # id)]

\* MarkActionTaken with the status toggled
ToggleActionTaken(d, id) ==
    [d EXCEPT !.ideas =
        [j \in 1..Len(@) |->
            IF @[j].id = id
            THEN [@[j] EXCEPT !.status = IF @ = StatusActionTaken THEN StatusOpen
                                          ELSE StatusActionTaken]
            ELSE @[j]]]

\* line 106: takeActionOnIdea's updater
MarkActionTaken(d, id) ==
    [d EXCEPT !.ideas =
        [j \in 1..Len(@) |-> IF @[j].id = id THEN [@[j] EXCEPT !.status = StatusActionTaken]
                             ELSE @[j]]]

KeepsMember(m, id) == m.id # id

\* line 111: removeMember's updater
FilterMembers(d, id) ==
    [d EXCEPT !.members = SelectSeq(@, LAMBDA m : KeepsMember(m, id))]

\* SaveEffect whose failed write empties the slot
SaveOrClear(s, d, ok) == IF ok THEN Stored(JSONstringify(d)) ELSE Absent

\* SaveEffect that writes only into an empty slot
SaveOnce(s, d, ok) == IF ok /\ ~s.present THEN Stored(JSONstringify(d)) ELSE s

\* lines 40-44: the effect that runs after a render with a new state; a
\* setItem that throws (quota, storage disabled) leaves the slot as it was
SaveEffect(s, d, ok) == IF ok THEN Stored(JSONstringify(d)) ELSE s

(* A handler works on h = [data, memberForm, ideaForm, slot]; the save effect
   of the render that follows its setData is part of it. *)
Here == [data |-> data, memberForm |-> memberForm, ideaForm |-> ideaForm, slot |-> slot]

SetData(h, d, ok) == [h EXCEPT !.data = d, !.slot = SaveEffect(h.slot, d, ok)]

\* lines 75-87
addMember(h, t, ok) ==
    IF IsBlank(h.memberForm.name) THEN h
    ELSE [SetData(h, AppendMember(h.data, NewMember(h.memberForm, t)), ok)
            EXCEPT !.memberForm = EmptyMemberForm]

\* lines 89-102
submitIdea(h, t, at, ok) ==
    IF IsBlank(h.ideaForm.title) THEN h
    ELSE [SetData(h, PrependIdea(h.data, NewIdea(h.ideaForm, t, at)), ok)
            EXCEPT !.ideaForm = EmptyIdeaForm]

\* lines 104-107
takeActionOnIdea(h, id, ok) == SetData(h, MarkActionTaken(h.data, id), ok)

\* lines 109-112
removeMember(h, id, confirmed, ok) ==
    IF ~confirmed THEN h ELSE SetData(h, FilterMembers(h.data, id), ok)

Event(op, yes, added, id) == [op |-> op, yes |-> yes, added |-> added, id |-> id]

Commit(h, ev) ==
    /\ data' = h.data
    /\ memberForm' = h.memberForm
    /\ ideaForm' = h.ideaForm
    /\ slot' = h.slot
    /\ last' = ev

Fits(h) == Len(h.data.members) <= MaxMembers /\ Len(h.data.ideas) <= MaxIdeas

-----------------------------------------------------------------------------
(* Start-up *)

Init ==
    /\ phase = "closed"
    /\ slot \in InitialSlots
    /\ data = Seed
    /\ memberForm = EmptyMemberForm
    /\ ideaForm = EmptyIdeaForm
    /\ reads = {}
    /\ now = 1
    /\ last = Event("none", FALSE, FALSE, 0)

\* The page is opened or reloaded: App mounts, its state is loaded from the
\* slot, and after the first render the save effect writes it back.  A render
\* that throws unmounts the tree and no effect runs.
Mount(ok) ==
    LET d == LoadState(slot) IN
    /\ data' = d
    /\ phase' = IF RenderThrows(d) THEN "crashed" ELSE "running"
    /\ slot' = IF RenderThrows(d) THEN slot ELSE SaveEffect(slot, d, ok)
    /\ memberForm' = EmptyMemberForm
    /\ ideaForm' = EmptyIdeaForm
    /\ reads' = {}
    /\ last' = Event("mount", ok, FALSE, 0)
    /\ UNCHANGED now

\* time passes
Tick ==
    /\ now < MaxClock
    /\ now' = now + 1
    /\ last' = Event("tick", TRUE, FALSE, 0)
    /\ UNCHANGED <<phase, slot, data, memberForm, ideaForm, reads>>

\* a later reading of the clock within one handler
Later == {t \in {now, now + 1} : t <= MaxClock}

-----------------------------------------------------------------------------
(* Header: lines 130-141 *)

SetSanghName(v, ok) ==
    /\ phase = "running"
    /\ Commit(SetData(Here, [data EXCEPT !.sanghName = v], ok), Event("editName", TRUE, FALSE, 0))
    /\ UNCHANGED <<phase, reads, now>>

SetDescription(v, ok) ==
    /\ phase = "running"
    /\ Commit(SetData(Here, [data EXCEPT !.description = v], ok),
              Event("editDescription", TRUE, FALSE, 0))
    /\ UNCHANGED <<phase, reads, now>>

-----------------------------------------------------------------------------
(* Member form: lines 155-233 *)

EditMember(form) ==
    /\ phase = "running"
    /\ memberForm' = form
    /\ last' = Event("edit", TRUE, FALSE, 0)
    /\ UNCHANGED <<phase, slot, data, ideaForm, reads, now>>

SetMemberName(v) == EditMember([memberForm EXCEPT !.name = v])
SetMemberPosition(v) == EditMember([memberForm EXCEPT !.position = v])
SetMemberWork(v) == EditMember([memberForm EXCEPT !.work = v])

\* line 206, "cancel"
CancelMember == EditMember(EmptyMemberForm)

\* the form's submit button (line 205), or Enter in one of its fields
SubmitMember(ok) ==
    /\ phase = "running"
    /\ LET h == addMember(Here, now, ok) IN
       /\ Fits(h)
       /\ Commit(h, Event("submitMember", TRUE, ~IsBlank(memberForm.name), 0))
    /\ UNCHANGED <<phase, reads, now>>

\* The remove button of member j (line 228).  It stands inside the member
\* form and has no type attribute, so it is a submit button: its click runs
\* removeMember and then submits the form, which runs addMember.  The confirm
\* dialog blocks, so the clock may have moved on when addMember reads it.
ClickRemove(j, confirmed, t, ok1, ok2) ==
    /\ phase = "running"
    /\ j \in 1..Len(data.members)
    /\ t \in Later
    /\ LET id == data.members[j].id
           h == addMember(removeMember(Here, id, confirmed, ok1), t, ok2) IN
       /\ Fits(h)
       /\ Commit(h, Event("clickRemove", confirmed, ~IsBlank(memberForm.name), id))
    /\ now' = t
    /\ UNCHANGED <<phase, reads>>

-----------------------------------------------------------------------------
(* Idea form: lines 239-288 *)

EditIdea(form) ==
    /\ phase = "running"
    /\ ideaForm' = form
    /\ last' = Event("edit", TRUE, FALSE, 0)
    /\ UNCHANGED <<phase, slot, data, memberForm, reads, now>>

SetIdeaTitle(v) == EditIdea([ideaForm EXCEPT !.title = v])
SetIdeaDescription(v) == EditIdea([ideaForm EXCEPT !.description = v])

\* line 261, "cancel"
CancelIdea == EditIdea(EmptyIdeaForm)

\* the form's submit button (line 260), or Enter in the title field; the
\* clock is read twice (lines 93 and 98)
SubmitIdea(at, ok) ==
    /\ phase = "running"
    /\ at \in Later
    /\ LET h == submitIdea(Here, now, at, ok) IN
       /\ Fits(h)
       /\ Commit(h, Event("submitIdea", TRUE, ~IsBlank(ideaForm.title), 0))
    /\ now' = at
    /\ UNCHANGED <<phase, reads>>

\* The action button of idea j (line 282), rendered while the idea is not yet
\* "Action Taken".  It stands inside the idea form and has no type attribute,
\* so its click runs takeActionOnIdea and then submits the form, which runs
\* submitIdea.
ClickAction(j, at, ok1, ok2) ==
    /\ phase = "running"
    /\ j \in 1..Len(data.ideas)
    /\ data.ideas[j].status # StatusActionTaken
    /\ at \in Later
    /\ LET id == data.ideas[j].id
           h == submitIdea(takeActionOnIdea(Here, id, ok1), now, at, ok2) IN
       /\ Fits(h)
       /\ Commit(h, Event("clickAction", TRUE, ~IsBlank(ideaForm.title), id))
    /\ now' = at
    /\ UNCHANGED <<phase, reads>>

-----------------------------------------------------------------------------
(* File inputs: lines 61-73, 176-194, 255 *)

\* "memberPhoto" is the input of lines 176-182, "memberFile" the one of lines
\* 184-194, "ideaImage" the one of line 255
FileInputs == {"memberPhoto", "memberFile", "ideaImage"}

\* onChange of a file input: without a file the handler returns, with one it
\* starts a FileReader
SelectFile(input, file) ==
    /\ phase = "running"
    /\ IF file = NoFile THEN reads' = reads
       ELSE /\ Cardinality(reads) < MaxReads
            /\ [input |-> input, file |-> file] \notin reads
            /\ reads' = reads \cup {[input |-> input, file |-> file]}
    /\ last' = Event("select", file # NoFile, FALSE, 0)
    /\ UNCHANGED <<phase, slot, data, memberForm, ideaForm, now>>

\* the functional update a reader's onload hands to the form's setter
OnLoad(r, mf, idf) ==
    CASE r.input = "memberPhoto" ->
            \* line 180: the wrapper ignores the update it is given and sets
            \* photoDataUrl to its own value
            [memberForm |-> [mf EXCEPT !.photoDataUrl = mf.photoDataUrl], ideaForm |-> idf]
      [] r.input = "memberFile" ->
            [memberForm |-> [mf EXCEPT !.photoDataUrl = DataURL(r.file)], ideaForm |-> idf]
      [] r.input = "ideaImage" ->
            [memberForm |-> mf, ideaForm |-> [idf EXCEPT !.imageDataUrl = DataURL(r.file)]]

\* a read in flight completes
ReadDone(r) ==
    /\ phase = "running"
    /\ r \in reads
    /\ reads' = reads \ {r}
    /\ memberForm' = OnLoad(r, memberForm, ideaForm).memberForm
    /\ ideaForm' = OnLoad(r, memberForm, ideaForm).ideaForm
    /\ last' = Event("read", TRUE, FALSE, 0)
    /\ UNCHANGED <<phase, slot, data, now>>

-----------------------------------------------------------------------------
(* Specifications *)

\* what a write to the slot can do: succeed, or throw
Writes == BOOLEAN

\* the whole page
Next ==
    \/ \E ok \in Writes : Mount(ok)
    \/ Tick
    \/ \E v \in SanghInputs, ok \in Writes : SetSanghName(v, ok)
    \/ \E v \in DescriptionInputs, ok \in Writes : SetDescription(v, ok)
    \/ \E v \in NameInputs : SetMemberName(v)
    \/ \E v \in PositionInputs : SetMemberPosition(v)
    \/ \E v \in WorkInputs : SetMemberWork(v)
    \/ CancelMember
    \/ \E ok \in Writes : SubmitMember(ok)
    \/ \E j \in 1..MaxMembers, c \in BOOLEAN, t \in Later, ok1, ok2 \in Writes :
            ClickRemove(j, c, t, ok1, ok2)
    \/ \E v \in TitleInputs : SetIdeaTitle(v)
    \/ \E v \in DescriptionInputs : SetIdeaDescription(v)
    \/ CancelIdea
    \/ \E at \in Later, ok \in Writes : SubmitIdea(at, ok)
    \/ \E j \in 1..MaxIdeas, at \in Later, ok1, ok2 \in Writes : ClickAction(j, at, ok1, ok2)
    \/ \E i \in FileInputs, f \in Files \cup {NoFile} : SelectFile(i, f)
    \/ \E r \in reads : ReadDone(r)

Spec == Init /\ [][Next]_vars

\* a step that keeps both lists within cap entries
Within(cap, A) == A /\ Len(data'.members) <= cap /\ Len(data'.ideas) <= cap

\* a first visit: nothing stored yet
InitFresh == Init /\ slot = Absent

\* The member list: members are added by name and removed, while time
\* passes; the storage takes every write.
NextRegistry ==
    \/ Mount(TRUE)
    \/ Tick
    \/ \E v \in NameInputs : SetMemberName(v)
    \/ CancelMember
    \/ SubmitMember(TRUE)
    \/ \E j \in 1..MaxMembers, c \in BOOLEAN, t \in Later : ClickRemove(j, c, t, TRUE, TRUE)

SpecRegistry == InitFresh /\ [][NextRegistry]_vars

\* The member form: every field is filled in, photos are read, members are
\* added; the storage takes every write.
NextMemberForm ==
    \/ Mount(TRUE)
    \/ \E v \in NameInputs : SetMemberName(v)
    \/ \E v \in PositionInputs : SetMemberPosition(v)
    \/ \E v \in WorkInputs : SetMemberWork(v)
    \/ CancelMember
    \/ Within(FormCap, SubmitMember(TRUE))
    \/ \E f \in {"f1", NoFile} : SelectFile("memberFile", f)
    \/ \E r \in reads : ReadDone(r)

SpecMemberForm == InitFresh /\ [][NextMemberForm]_vars

\* The idea list: ideas are submitted by title and marked, while time passes;
\* the storage takes every write.
NextTracker ==
    \/ Mount(TRUE)
    \/ Tick
    \/ \E v \in TitleInputs : SetIdeaTitle(v)
    \/ CancelIdea
    \/ \E at \in Later : SubmitIdea(at, TRUE)
    \/ \E j \in 1..MaxIdeas, at \in Later : ClickAction(j, at, TRUE, TRUE)

SpecTracker == InitFresh /\ [][NextTracker]_vars

\* The idea form: every field is filled in, images are read, ideas are
\* submitted within one clock reading; the storage takes every write.
NextIdeaForm ==
    \/ Mount(TRUE)
    \/ \E v \in TitleInputs : SetIdeaTitle(v)
    \/ \E v \in DescriptionInputs : SetIdeaDescription(v)
    \/ CancelIdea
    \/ Within(FormCap, SubmitIdea(now, TRUE))
    \/ \E f \in {"f1", NoFile} : SelectFile("ideaImage", f)
    \/ \E r \in reads : ReadDone(r)

SpecIdeaForm == InitFresh /\ [][NextIdeaForm]_vars

\* The Document store: the page is opened on any slot content and reloaded at
\* any time, every operation on the Document is used within one clock
\* reading, and a write to the slot may throw.
NextStore ==
    \/ \E ok \in Writes : Mount(ok)
    \/ \E ok \in Writes : SetSanghName(<<"Ekta">>, ok)
    \/ SetMemberName(<<" ", "Asha">>)
    \/ \E ok \in Writes : Within(StoreCap, SubmitMember(ok))
    \/ \E j \in 1..MaxMembers, c \in BOOLEAN, ok1, ok2 \in Writes :
            Within(StoreCap, ClickRemove(j, c, now, ok1, ok2))
    \/ SetIdeaTitle(<<"Fix", " ", "gate">>)
    \/ \E ok \in Writes : Within(StoreCap, SubmitIdea(now, ok))
    \/ \E j \in 1..MaxIdeas, ok1, ok2 \in Writes :
            Within(StoreCap, ClickAction(j, now, ok1, ok2))

SpecStore == Init /\ [][NextStore]_vars

\* The member photo: files are selected through both file inputs of the
\* member form while earlier reads are in flight, members are added and the
\* form is cancelled; the storage takes every write.
NextMemberFiles ==
    \/ Mount(TRUE)
    \/ SetMemberName(<<" ", "Asha">>)
    \/ CancelMember
    \/ Within(FormCap, SubmitMember(TRUE))
    \/ \E i \in {"memberPhoto", "memberFile"}, f \in Files \cup {NoFile} : SelectFile(i, f)
    \/ \E r \in reads : ReadDone(r)

SpecMemberFiles == InitFresh /\ [][NextMemberFiles]_vars

\* The whole Document: the header is edited, members are added and removed,
\* ideas are submitted and marked, within one clock reading; the storage
\* takes every write.
NextFrame ==
    \/ Mount(TRUE)
    \/ \E v \in SanghInputs : SetSanghName(v, TRUE)
    \/ \E v \in DescriptionInputs : SetDescription(v, TRUE)
    \/ SetMemberName(<<" ", "Asha">>)
    \/ Within(StoreCap, SubmitMember(TRUE))
    \/ \E j \in 1..MaxMembers, c \in BOOLEAN :
            Within(StoreCap, ClickRemove(j, c, now, TRUE, TRUE))
    \/ SetIdeaTitle(<<"Fix", " ", "gate">>)
    \/ Within(StoreCap, SubmitIdea(now, TRUE))
    \/ \E j \in 1..MaxIdeas : Within(StoreCap, ClickAction(j, now, TRUE, TRUE))

SpecFrame == InitFresh /\ [][NextFrame]_vars

\* Documents the operations build: members with and without a photo, ideas
\* open and marked, with and without an image
SampleMembers ==
    {NewMember([EmptyMemberForm EXCEPT !.name = <<" ", "Asha">>, !.position = <<"Guard">>], 1),
     NewMember([EmptyMemberForm EXCEPT !.name = <<"Asha">>, !.work = <<"Patrol">>,
                                       !.photoDataUrl = DataURL("f1")], 2)}

SampleIdeas ==
    {NewIdea([EmptyIdeaForm EXCEPT !.title = <<"Fix", " ", "gate">>], 1, 1),
     [NewIdea([EmptyIdeaForm EXCEPT !.title = <<" ", "Lamp">>, !.description = <<"Soon">>,
                                    !.imageDataUrl = DataURL("f2")], 2, 2)
        EXCEPT !.status = StatusActionTaken]}

SeqsUpTo(S, n) == UNION {[1..k -> S] : k \in 0..n}

Documents ==
    {[sanghName |-> n, description |-> d, members |-> ms, ideas |-> is] :
        n \in SanghInputs, d \in DescriptionInputs,
        ms \in SeqsUpTo(SampleMembers, StoreCap), is \in SeqsUpTo(SampleIdeas, StoreCap)}

\* the page runs with some Document that has not been saved yet
InitRoundTrip ==
    /\ phase = "running"
    /\ slot = Absent
    /\ data \in Documents
    /\ memberForm = EmptyMemberForm
    /\ ideaForm = EmptyIdeaForm
    /\ reads = {}
    /\ now = 1
    /\ last = Event("none", FALSE, FALSE, 0)

\* Save and load: an edit of the header saves the Document, a reload loads
\* it; the storage takes every write.
NextRoundTrip ==
    \/ Mount(TRUE)
    \/ \E v \in SanghInputs : SetSanghName(v, TRUE)
    \/ \E v \in DescriptionInputs : SetDescription(v, TRUE)

SpecRoundTrip == InitRoundTrip /\ [][NextRoundTrip]_vars

-----------------------------------------------------------------------------
(* Claims *)

Running == phase = "running"
Members == data.members
Ideas == data.ideas
\* the k-th entry counted from the end of a list
FromEnd(seq, k) == seq[Len(seq) - k + 1]

\* C1: no two members share an id and no two ideas share an id, in every
\* state the operations reach.
UniqueIds ==
    Running =>
        /\ \A j, k \in 1..Len(Members) : Members[j].id = Members[k].id => j = k
        /\ \A j, k \in 1..Len(Ideas) : Ideas[j].id = Ideas[k].id => j = k

\* the slot holds nothing that decodes to a Document
SlotCorrupt(raw) ==
    \/ ~raw.present
    \/ ~JSONparse(raw.text).ok
    \/ ~IsDocumentValue(JSONparse(raw.text).val)

\* C2: at start-up, an absent or corrupt slot yields the seed Document and no
\* error state; any other slot yields the stored Document.
LoadFallsBackToSeed ==
    [][last'.op = "mount" =>
          /\ phase' = "running"
          /\ data' = IF SlotCorrupt(slot) THEN Seed
                     ELSE AsDocument(JSONparse(slot.text).val)]_vars

\* C3: a removal that the user declines leaves the Document unchanged,
\* whatever the member form holds.
DeclinedRemovalChangesNothing ==
    [][last'.op = "clickRemove" /\ ~last'.yes => data' = data]_vars

\* C4: a confirmed removal of a member shortens members by exactly one and
\* keeps the others in order; it changes nothing when no member has the id.
ConfirmedRemovalRemovesOne ==
    [][last'.op = "clickRemove" /\ last'.yes =>
          IF \E j \in 1..Len(Members) : Members[j].id = last'.id
          THEN /\ Len(data'.members) = Len(Members) - 1
               /\ \E j \in 1..Len(Members) :
                     /\ Members[j].id = last'.id
                     /\ data'.members = SubSeq(Members, 1, j - 1)
                                        \o SubSeq(Members, j + 1, Len(Members))
          ELSE data'.members = Members]_vars

\* C5: marking an idea changes nothing but the status of that one idea: the
\* list keeps its length and order and every other idea keeps all its fields.
MarkChangesOneStatusOnly ==
    [][last'.op = "clickAction" =>
          /\ Len(data'.ideas) = Len(Ideas)
          /\ \E j \in 1..Len(Ideas) :
                /\ Ideas[j].id = last'.id
                /\ data'.ideas = [Ideas EXCEPT ![j].status = StatusActionTaken]]_vars

\* the step keeps every idea, lets no status go back, and adds only Open ideas
OneWayStep ==
    /\ \A k \in 1..Len(Ideas) :
          /\ FromEnd(Ideas, k).status \in {StatusOpen, StatusActionTaken}
          /\ FromEnd(Ideas, k).status = StatusActionTaken =>
                /\ k <= Len(data'.ideas)
                /\ FromEnd(data'.ideas, k).status = StatusActionTaken
    /\ Len(data'.ideas) >= Len(Ideas) =>
          \A j \in 1..(Len(data'.ideas) - Len(Ideas)) : data'.ideas[j].status = StatusOpen

\* C6 as stated: over every step, reloads included, an idea that is Action
\* Taken stays Action Taken, and a new idea starts Open.
StatusNeverReverts ==
    [][Running /\ phase' = "running" => OneWayStep]_vars

\* C6: within a page session an idea that is Action Taken stays Action Taken
\* and a new idea starts Open; a reload keeps the statuses when the slot holds
\* the current Document, that is when the last write did not fail.
StatusNeverRevertsWhileSaved ==
    [][(Running /\ phase' = "running"
          /\ (last'.op = "mount" => slot = Stored(JSONstringify(data))))
       => OneWayStep]_vars

StatusKeptWitness ==
    /\ Running /\ last.op = "mount"
    /\ Len(Ideas) = 2
    /\ Ideas[2].status = StatusActionTaken /\ Ideas[1].status = StatusOpen

\* ids an idea can carry, and one that none carries
IdeaIds == 0..(MaxClock + 1)

\* C7: marking is idempotent: marking an id twice gives the Document that
\* marking it once gives, and marking an id that no idea carries, or whose
\* ideas are all Action Taken, leaves the Document unchanged.
MarkIsIdempotent ==
    Running =>
        \A id \in IdeaIds :
            LET once == takeActionOnIdea(Here, id, TRUE).data
                twice == takeActionOnIdea(takeActionOnIdea(Here, id, TRUE), id, TRUE).data IN
            /\ twice = once
            /\ (\A j \in 1..Len(Ideas) : Ideas[j].id = id => Ideas[j].status = StatusActionTaken)
                  => once = data

MarkIsIdempotentWitness ==
    /\ Running /\ last.op = "clickAction"
    /\ \E j, k \in 1..Len(Ideas) :
          /\ Ideas[j].status = StatusActionTaken /\ Ideas[j].id = last.id
          /\ Ideas[k].status = StatusOpen /\ Ideas[k].id # last.id

\* C8: addMember with an empty or white-space name leaves the Document
\* unchanged and the member form as the user filled it.
BlankNameAddsNothing ==
    [][last'.op = "submitMember" /\ Trim(memberForm.name) = <<>> =>
          data' = data /\ memberForm' = memberForm]_vars

BlankNameWitness ==
    /\ Running /\ last.op = "submitMember" /\ ~last.added
    /\ memberForm.name = <<" ">>
    /\ memberForm.position # <<>> /\ memberForm.photoDataUrl # <<>>
    /\ Len(Members) = 1

\* C9: addMember with a non-blank name appends one Member that carries the
\* form's name, position, work and photo (null without a photo), keeps the
\* earlier members in place, and resets the member form.
AddMemberAppends ==
    [][last'.op = "submitMember" /\ Trim(memberForm.name) # <<>> =>
          /\ Len(data'.members) = Len(Members) + 1
          /\ SubSeq(data'.members, 1, Len(Members)) = Members
          /\ LET m == data'.members[Len(data'.members)] IN
                /\ m.name = memberForm.name
                /\ m.position = memberForm.position
                /\ m.work = memberForm.work
                /\ m.photo.isNull = (memberForm.photoDataUrl = <<>>)
                /\ ~m.photo.isNull => m.photo.s = memberForm.photoDataUrl
          /\ memberForm' = EmptyMemberForm]_vars

AddMemberWitness ==
    /\ Running /\ last.op = "submitMember" /\ last.added
    /\ Len(Members) = 2
    /\ Members[1].photo.isNull /\ ~Members[2].photo.isNull
    /\ Members[2].position # <<>> /\ Members[2].work = <<>>
    /\ memberForm = EmptyMemberForm

\* the ideas are newest first: ids and submission times never increase along
\* the list
NewestFirst ==
    Running =>
        \A j, k \in 1..Len(Ideas) : j < k => Ideas[j].id >= Ideas[k].id

\* C10: submitIdea with a non-blank title puts one new Open idea at index 0,
\* keeps the earlier ideas in their order behind it, and resets the idea
\* form; so the ideas are always newest first.
SubmitIdeaPrepends ==
    /\ []NewestFirst
    /\ [][last'.op \in {"submitIdea", "clickAction"} /\ Trim(ideaForm.title) # <<>> =>
             /\ Len(data'.ideas) = Len(Ideas) + 1
             /\ data'.ideas[1].status = StatusOpen
             /\ data'.ideas[1].title = ideaForm.title
             /\ \A j \in 1..Len(Ideas) :
                   /\ data'.ideas[j + 1].id = Ideas[j].id
                   /\ data'.ideas[j + 1].title = Ideas[j].title
                   /\ data'.ideas[j + 1].submittedAt = Ideas[j].submittedAt
                   /\ last'.op = "submitIdea" => data'.ideas[j + 1] = Ideas[j]
             /\ ideaForm' = EmptyIdeaForm]_vars

SubmitIdeaWitness ==
    /\ Running /\ last.op = "submitIdea" /\ last.added
    /\ Len(Ideas) = 3
    /\ Ideas[1].id > Ideas[2].id /\ Ideas[2].id > Ideas[3].id
    /\ Ideas[2].status = StatusActionTaken
    /\ ideaForm = EmptyIdeaForm

\* C11: submitIdea with an empty or white-space title leaves the Document
\* unchanged and the idea form as the user filled it.
BlankTitleSubmitsNothing ==
    [][last'.op = "submitIdea" /\ Trim(ideaForm.title) = <<>> =>
          data' = data /\ ideaForm' = ideaForm]_vars

BlankTitleWitness ==
    /\ Running /\ last.op = "submitIdea" /\ ~last.added
    /\ ideaForm.title = <<" ">>
    /\ ideaForm.description # <<>> /\ ideaForm.imageDataUrl # <<>>
    /\ Len(Ideas) = 1

\* the step keeps every idea, with its id, title, description, image and
\* submission time
KeepsIdeasStep ==
    /\ Len(data'.ideas) >= Len(Ideas)
    /\ \A k \in 1..Len(Ideas) :
          k <= Len(data'.ideas) =>
             LET old == FromEnd(Ideas, k)
                 new == FromEnd(data'.ideas, k) IN
             /\ new.id = old.id /\ new.title = old.title
             /\ new.description = old.description /\ new.image = old.image
             /\ new.submittedAt = old.submittedAt

\* C12 as stated: over every step, reloads included, every idea stays in the
\* list with the same id, title, description, image and submission time.
IdeasNeverDeleted ==
    [][Running /\ phase' = "running" => KeepsIdeasStep]_vars

\* C12: within a page session every idea stays in the list and only its
\* status changes; a reload keeps the ideas when the slot holds the current
\* Document, that is when the last write did not fail.
IdeasNeverDeletedWhileSaved ==
    [][(Running /\ phase' = "running"
          /\ (last'.op = "mount" => slot = Stored(JSONstringify(data))))
       => KeepsIdeasStep]_vars

IdeasKeptWitness ==
    /\ Running /\ last.op = "clickRemove" /\ last.yes
    /\ Len(Ideas) = 2 /\ Len(Members) = 0

\* C13 as stated: whenever the page runs, the slot holds the serialization of
\* the current Document.
SlotTracksDocument == Running => slot = Stored(JSONstringify(data))

\* the operations that write the Document
WriteOps == {"editName", "submitMember", "clickRemove", "submitIdea", "clickAction"}

\* what the operation of the step gives when each of its writes to the slot
\* succeeds (ok) or throws (~ok)
Outcome(ok) ==
    CASE last'.op = "editName" -> SetData(Here, [data EXCEPT !.sanghName = <<"Ekta">>], ok)
      [] last'.op = "submitMember" -> addMember(Here, now, ok)
      [] last'.op = "clickRemove" ->
            addMember(removeMember(Here, last'.id, last'.yes, ok), now, ok)
      [] last'.op = "submitIdea" -> submitIdea(Here, now, now, ok)
      [] last'.op = "clickAction" ->
            submitIdea(takeActionOnIdea(Here, last'.id, ok), now, now, ok)
      [] OTHER -> Here

\* the step ends in h
EndsIn(h) == Here' = h

\* C13: after startup and after every operation that changes the Document,
\* once the save has run without throwing, the slot holds the serialization
\* of the current Document, and a reload at such a point gives that Document.
SlotTracksDocumentWhenWritten ==
    [][/\ (phase' = "running" /\ last'.op = "mount" /\ last'.yes)
             => slot' = Stored(JSONstringify(data'))
       /\ (last'.op \in WriteOps /\ data' # data /\ EndsIn(Outcome(TRUE)))
             => slot' = Stored(JSONstringify(data'))
       /\ (Running /\ last'.op = "mount" /\ data' # data)
             => slot # Stored(JSONstringify(data))]_vars

SlotTracksWitness ==
    /\ Running /\ last.op = "submitIdea" /\ last.added
    /\ slot = Stored(JSONstringify(data))
    /\ Len(Members) = 1 /\ Len(Ideas) = 1

\* C14: an operation whose writes to the slot throw reaches no error state,
\* leaves the slot as it was and gives the Document and the forms that it
\* gives when the writes succeed; a reload then yields the stored Document.
FailedWriteIgnored ==
    [][/\ (last'.op \in WriteOps /\ EndsIn(Outcome(FALSE)))
             => /\ phase' = "running"
                /\ slot' = slot
                /\ EndsIn([Outcome(TRUE) EXCEPT !.slot = slot])
       /\ (Running /\ last'.op = "mount" /\ ~last'.yes)
             => /\ phase' = "running"
                /\ slot' = slot
                /\ data' = LoadState(slot)]_vars

FailedWriteWitness ==
    /\ Running /\ last.op = "submitIdea" /\ last.added
    /\ slot = Absent
    /\ Len(Ideas) = 2 /\ Len(Members) = 1

\* C15: saving the Document the page holds, whichever it is, and loading from
\* the slot gives a Document with the same name, description, members and
\* ideas.
RoundTrip == Running => LoadState(SaveEffect(slot, data, TRUE)) = data

RoundTripWitness ==
    /\ Running /\ last.op = "mount"
    /\ slot = Stored(JSONstringify(data))
    /\ Len(Members) = 2 /\ Len(Ideas) = 2
    /\ Members[1].photo = Null /\ Members[2].photo # Null
    /\ Ideas[1].status = StatusActionTaken /\ Ideas[2].image = Null
    /\ data.sanghName = <<"Ekta">> /\ data.description = EmptyStr

\* the step completes the read r
Completes(r) == last'.op = "read" /\ r \in reads /\ reads' = reads \ {r}

\* C16: when a read started through a member-photo file input completes, the
\* photo field of the member form holds that file's data, and when a read
\* started through the idea-image input completes, the image field of the idea
\* form does; a selection without a file leaves both forms unchanged.
CaptureFillsField ==
    [][/\ \A r \in reads :
            Completes(r) =>
               /\ r.input \in {"memberPhoto", "memberFile"} =>
                     memberForm'.photoDataUrl = DataURL(r.file)
               /\ r.input = "ideaImage" => ideaForm'.imageDataUrl = DataURL(r.file)
       /\ (last'.op = "select" /\ ~last'.yes) =>
             (memberForm' = memberForm /\ ideaForm' = ideaForm)]_vars

\* C17: with several reads for the photo field in flight, each completion
\* puts the data of its file into the field, so that the read completing last
\* wins, and changes no other field of the forms and nothing in the Document.
LastCompletedReadWins ==
    [][\A r \in reads :
          (Completes(r) /\ Cardinality(reads) >= 2) =>
             /\ memberForm' = [memberForm EXCEPT !.photoDataUrl = DataURL(r.file)]
             /\ ideaForm' = ideaForm
             /\ data' = data]_vars

\* C18: a read that completes right after a successful addMember, and so was
\* started before it, leaves the cleared member form empty.
ClearedFormStaysClear ==
    [][(last.op = "submitMember" /\ last.added /\ last'.op = "read")
       => memberForm' = EmptyMemberForm]_vars

\* C19: adding and removing members, also through the remove button inside the
\* member form, changes neither the ideas nor the name nor the description;
\* submitting and marking ideas, also through the action button inside the
\* idea form, changes neither the members nor the name nor the description;
\* an edit of the name or of the description changes nothing else.
OwnPartOnly ==
    [][/\ last'.op \in {"submitMember", "clickRemove"} =>
             /\ data'.ideas = data.ideas
             /\ data'.sanghName = data.sanghName /\ data'.description = data.description
       /\ last'.op \in {"submitIdea", "clickAction"} =>
             /\ data'.members = data.members
             /\ data'.sanghName = data.sanghName /\ data'.description = data.description
       /\ last'.op = "editName" =>
             /\ data'.members = data.members /\ data'.ideas = data.ideas
             /\ data'.description = data.description
       /\ last'.op = "editDescription" =>
             /\ data'.members = data.members /\ data'.ideas = data.ideas
             /\ data'.sanghName = data.sanghName]_vars

OwnPartWitness ==
    /\ Running /\ last.op = "clickRemove" /\ last.yes /\ last.added
    /\ Len(Members) = 1 /\ Len(Ideas) = 2
    /\ Ideas[2].status = StatusActionTaken
    /\ data.sanghName = <<"Ekta">> /\ data.description = <<"Soon">>

====
